---------------------------- MODULE Spec2Model ----------------------------
(***************************************************************************)
(* Prediction-market program (bango-arch-contract).                        *)
(*                                                                         *)
(*   src/lib.rs   the Arch program: one account holds the borsh encoding   *)
(*                of Predictions; create / close / bet handlers            *)
(*   src/mint.rs  the token mint: one account holds the borsh encoding of  *)
(*                TokenMintDetails; initialize / mint / burn               *)
(*   lib3.rs      the one-event-per-account iteration: create / bet /      *)
(*                resolve / claim on a borsh-encoded PredictionEvent       *)
(*                                                                         *)
(* Account data is modelled as the sequence of bytes the code stores, and  *)
(* every handler is load (decode) - validate - mutate - encode - write, as *)
(* in the source.  A handler is an operator from the call's inputs and the *)
(* account bytes to the SET of outcomes the build can produce: integer     *)
(* overflow panics in a build with overflow checks and wraps in one        *)
(* without, so both outcomes are in the set.  A call that returns an error *)
(* or panics leaves the accounts as they were (the host discards the       *)
(* writes of a failed instruction).                                        *)
(*                                                                         *)
(* TLC's integers are 32 bits wide, so the u32 and u64 of the program are  *)
(* scaled to U32Bits and U64Bits bits; every arithmetic step reduces       *)
(* modulo the width where the Rust type would.  The byte layout keeps the  *)
(* real field sizes (4 and 8 bytes, 32-byte keys).                         *)
(***************************************************************************)
EXTENDS Integers, Sequences, FiniteSets, TLC

VARIABLES
    mint_data,     \* mint.rs: bytes of the mint account
    event_data,    \* lib.rs: bytes of the event account (the Predictions slot)
    tx_to_sign,    \* lib.rs: the transaction staged by set_transaction_to_sign
    event3,        \* lib3.rs: bytes of each event account, by account address
    lamports,      \* lib3.rs: lamport balance of every key (system program ledger)
    calc,          \* lib3.rs: the payout computation of claim_winnings, its inputs and results
    last           \* the last handler call: its operation, inputs and result

vars == <<mint_data, event_data, tx_to_sign, event3, lamports, calc, last>>

---------------------------------------------------------------------------
(* Bounds of the model *)

U64Bits == 12
U32Bits == 12
MaxBalance == 2
MaxEvents == 2
MaxUnderflow == 1
MaxStake == 1

(* Sizes fixed by the program's types *)
PubkeyLen == 32
U32Len == 4
U64Len == 8

U64Mod == 2 ^ U64Bits
U64Max == U64Mod - 1
U32Mod == 2 ^ U32Bits
U32Max == U32Mod - 1
\* What a decoded integer too wide for the scaled width is read as.
Huge == 2 ^ 30

---------------------------------------------------------------------------
(* Bytes *)

RECURSIVE Zeros(_)
Zeros(n) == IF n <= 0 THEN <<>> ELSE <<0>> \o Zeros(n - 1)

\* A 32-byte key whose first byte is k.
Key(k) == <<k>> \o Zeros(PubkeyLen - 1)

\* Little-endian encoding of n in w bytes (borsh integers).
RECURSIVE LE(_, _)
LE(n, w) == IF w = 0 THEN <<>> ELSE <<n % 256>> \o LE(n \div 256, w - 1)

\* The integer a little-endian byte string holds.
RECURSIVE FromLE(_)
FromLE(bs) ==
    IF bs = <<>> THEN 0
    ELSE LET rest == FromLE(Tail(bs))
         IN  IF rest >= Huge \div 256 THEN Huge ELSE bs[1] + 256 * rest

\* Lexicographic order on byte strings (Ord of [u8; 32] and of String): a
\* proper prefix comes before the strings it starts.
RECURSIVE LexLess(_, _)
LexLess(a, b) ==
    /\ b # <<>>
    /\ \/ a = <<>>
       \/ a[1] < b[1]
       \/ a[1] = b[1] /\ LexLess(Tail(a), Tail(b))

\* The keys of a map in the order borsh writes a HashMap: sorted by key.
RECURSIVE SortedKeys(_)
SortedKeys(S) ==
    IF S = {} THEN <<>>
    ELSE LET m == CHOOSE x \in S : \A y \in S \ {x} : LexLess(x, y)
         IN  <<m>> \o SortedKeys(S \ {m})

RECURSIVE Concat(_)
Concat(ss) == IF ss = <<>> THEN <<>> ELSE Head(ss) \o Concat(Tail(ss))

(* A reader is [ok, val, pos]: pos is the index of the next unread byte. *)
Fail == [ok |-> FALSE, val |-> 0, pos |-> 0]
Got(v, p) == [ok |-> TRUE, val |-> v, pos |-> p]

RdBytes(bs, p, n) ==
    IF p + n - 1 <= Len(bs) THEN Got(SubSeq(bs, p, p + n - 1), p + n) ELSE Fail
RdU8(bs, p) == IF p <= Len(bs) THEN Got(bs[p], p + 1) ELSE Fail
RdInt(bs, p, w) ==
    IF p + w - 1 <= Len(bs) THEN Got(FromLE(SubSeq(bs, p, p + w - 1)), p + w) ELSE Fail
RdU32(bs, p) == RdInt(bs, p, U32Len)
RdU64(bs, p) == RdInt(bs, p, U64Len)

\* Option<T>: None is <<>>, Some(v) is <<v>>.
None == <<>>
Some(v) == <<v>>

\* A map held as a function; Put is HashMap::insert.
Put(m, k, v) == [x \in (DOMAIN m) \cup {k} |-> IF x = k THEN v ELSE m[x]]
EmptyMap == [x \in {} |-> 0]

\* A map from the entries read, the later entry of a key replacing the earlier.
RECURSIVE MapOf(_)
MapOf(entries) ==
    IF entries = <<>> THEN EmptyMap
    ELSE LET e == entries[Len(entries)]
             m == MapOf(SubSeq(entries, 1, Len(entries) - 1))
         IN  Put(m, e.key, e.val)

(* The shapes of the borsh types the program declares. *)
U8 == [k |-> "u8"]
U32 == [k |-> "int", w |-> U32Len]
U64 == [k |-> "int", w |-> U64Len]
Pubkey == [k |-> "bytes", n |-> PubkeyLen]
Enum(n) == [k |-> "enum", n |-> n]
Option(T) == [k |-> "option", of |-> T]
Vec(T) == [k |-> "vec", of |-> T]
Struct(names, types) == [k |-> "struct", names |-> names, types |-> types]
HashMap(K, V) == [k |-> "map", of |-> Vec(Struct(<<"key", "val">>, <<K, V>>))]
String == [k |-> "string"]

\* A continuation byte of UTF-8.
Cont(b) == b \in 128..191

\* str::from_utf8 accepts the bytes: String::deserialize fails on any others.
RECURSIVE IsUtf8(_)
IsUtf8(s) ==
    IF s = <<>> THEN TRUE
    ELSE LET b == s[1]
             n == Len(s)
         IN  IF b < 128 THEN IsUtf8(Tail(s))
             ELSE IF b \in 194..223
                  THEN n >= 2 /\ Cont(s[2]) /\ IsUtf8(SubSeq(s, 3, n))
             ELSE IF b \in 224..239
                  THEN /\ n >= 3
                       /\ s[2] \in (IF b = 224 THEN 160..191
                                    ELSE IF b = 237 THEN 128..159 ELSE 128..191)
                       /\ Cont(s[3])
                       /\ IsUtf8(SubSeq(s, 4, n))
             ELSE IF b \in 240..244
                  THEN /\ n >= 4
                       /\ s[2] \in (IF b = 240 THEN 144..191
                                    ELSE IF b = 244 THEN 128..143 ELSE 128..191)
                       /\ Cont(s[3])
                       /\ Cont(s[4])
                       /\ IsUtf8(SubSeq(s, 5, n))
             ELSE FALSE

(* BorshDeserialize, as derived from the shape T of a type: the fields of a    *)
(* struct in the order declared, a Vec, a String and a HashMap as a u32 count  *)
(* and the items, an enum and an Option as a tag byte.                         *)
RECURSIVE Rd(_, _, _), RdItems(_, _, _, _), RdFields(_, _, _, _, _)

\* n items of shape T read one after the other.
RdItems(T, bs, p, n) ==
    IF n = 0 THEN Got(<<>>, p)
    ELSE IF p > Len(bs) THEN Fail
    ELSE LET x == Rd(T, bs, p)
         IN  IF ~x.ok THEN Fail
             ELSE LET r == RdItems(T, bs, x.pos, n - 1)
                  IN  IF ~r.ok THEN Fail ELSE Got(<<x.val>> \o r.val, r.pos)

\* The fields of struct T from the i-th on; vals are the fields read so far.
RdFields(T, bs, p, i, vals) ==
    IF i > Len(T.names)
    THEN Got([name \in {T.names[j] : j \in 1..Len(T.names)} |->
                 vals[CHOOSE j \in 1..Len(T.names) : T.names[j] = name]], p)
    ELSE LET x == Rd(T.types[i], bs, p)
         IN  IF ~x.ok THEN Fail
             ELSE RdFields(T, bs, x.pos, i + 1, Append(vals, x.val))

Rd(T, bs, p) ==
    CASE T.k = "u8" -> RdU8(bs, p)
      [] T.k = "int" -> RdInt(bs, p, T.w)
      [] T.k = "bytes" -> RdBytes(bs, p, T.n)
      [] T.k = "enum" ->
            LET tag == RdU8(bs, p)
            IN  IF tag.ok /\ tag.val < T.n THEN tag ELSE Fail
      [] T.k = "option" ->
            LET tag == RdU8(bs, p)
            IN  IF ~tag.ok \/ tag.val > 1 THEN Fail
                ELSE IF tag.val = 0 THEN Got(None, tag.pos)
                ELSE LET v == Rd(T.of, bs, tag.pos)
                     IN  IF ~v.ok THEN Fail ELSE Got(Some(v.val), v.pos)
      [] T.k = "vec" ->
            LET n == RdU32(bs, p)
            IN  IF ~n.ok THEN Fail ELSE RdItems(T.of, bs, n.pos, n.val)
      [] T.k = "string" ->
            LET s == Rd(Vec(U8), bs, p)
            IN  IF s.ok /\ IsUtf8(s.val) THEN s ELSE Fail
      [] T.k = "map" ->
            LET entries == Rd(T.of, bs, p)
            IN  IF ~entries.ok THEN Fail ELSE Got(MapOf(entries.val), entries.pos)
      [] T.k = "struct" -> RdFields(T, bs, p, 1, <<>>)

\* String: u32 length, then the bytes.
WrString(s) == LE(Len(s), U32Len) \o s

\* try_from_slice: the value, provided every byte was read.
Whole(bs, r) == r.ok /\ r.pos = Len(bs) + 1
Try(bs, r) == IF Whole(bs, r) THEN [ok |-> TRUE, val |-> r.val] ELSE [ok |-> FALSE, val |-> 0]

---------------------------------------------------------------------------
(* Results of a call *)

Ok == "Ok"
Panic == "panic"
\* The runtime ends the transaction when a program's invoke names as signer an
\* account that has not signed: the program gets no error to return.
PrivilegeEscalation == "abort:PrivilegeEscalation"
\* The results with which a call ends without returning.
Aborts == {Panic, PrivilegeEscalation}
\* One outcome of a handler: its result and the account bytes it leaves.
Ret(res, data) == [res |-> res, data |-> data]

\* The last call, as the actions record it.
\* fx: the effects the handler had performed when it returned.
Call(op, res, who, id, amt, paid, fx) ==
    [op |-> op, res |-> res, who |-> who, id |-> id, amt |-> amt, paid |-> paid,
     fx |-> fx]
NoCall == Call("none", Ok, <<>>, <<>>, 0, 0, {})
\* What an action records: the inputs of a call that succeeded, and of one that
\* failed its operation, result and effects.
Record(op, res, who, id, amt, paid, fx) ==
    IF res = Ok THEN Call(op, res, who, id, amt, paid, fx)
    ELSE Call(op, res, <<>>, <<>>, 0, 0, fx)

---------------------------------------------------------------------------
(* mint.rs: the token mint *)

\* MintStatus, as borsh numbers its variants.
Ongoing == 0
Finished == 1

\* TokenMintDetails::new
TokenMintDetails_new(input, status, token_metadata) ==
    [owner |-> input.owner, status |-> status, supply |-> input.supply,
     circulating_supply |-> 0, ticker |-> input.ticker, decimals |-> input.decimals,
     token_metadata |-> token_metadata, balances |-> EmptyMap]


\* borsh::to_vec(&TokenMintDetails)
EncMint(t) ==
    LET ks == SortedKeys(DOMAIN t.balances)
        ms == SortedKeys(DOMAIN t.token_metadata)
    IN  t.owner \o <<t.status>> \o LE(t.supply, U64Len)
        \o LE(t.circulating_supply, U64Len) \o WrString(t.ticker) \o <<t.decimals>>
        \o LE(Len(ms), U32Len)
        \o Concat([i \in 1..Len(ms) |-> WrString(ms[i]) \o t.token_metadata[ms[i]]])
        \o LE(Len(ks), U32Len)
        \o Concat([i \in 1..Len(ks) |-> ks[i] \o LE(t.balances[ks[i]], U64Len)])

MintStatus == Enum(2)
TokenMintDetails ==
    Struct(<<"owner", "status", "supply", "circulating_supply", "ticker", "decimals",
             "token_metadata", "balances">>,
           <<Pubkey, MintStatus, U64, U64, String, U8, HashMap(String, Pubkey),
             HashMap(Pubkey, U64)>>)

\* TokenMintDetails::try_from_slice
DecMint(bs) == Rd(TokenMintDetails, bs, 1)
MintReadable(bs) == Whole(bs, DecMint(bs))

\* The outcomes of a u64 addition: the sum, or on overflow a panic (overflow
\* checks on) or the wrapped sum (overflow checks off).
AddU64(a, b) ==
    IF a + b <= U64Max THEN {[panic |-> FALSE, val |-> a + b]}
    ELSE {[panic |-> TRUE, val |-> 0], [panic |-> FALSE, val |-> (a + b) % U64Mod]}

\* The write at the end of mint_tokens and burn_tokens: realloc when the account is
\* too small, then copy_from_slice, which panics unless the lengths are equal.
StoreMint(data, res, t) ==
    LET bytes == EncMint(t)
    IN  IF Len(data) > Len(bytes) THEN Ret(Panic, data) ELSE Ret(res, bytes)

\* An initialize_mint that does not look at what the account holds.
initialize_mint_again(data, owned, input) ==
    IF ~owned THEN {Ret("IllegalOwner", data)}
    ELSE {Ret(Ok, EncMint(TokenMintDetails_new(input, Ongoing, EmptyMap)))}

\* initialize_mint(account, program_id, mint_input); owned: account.owner == program_id.
initialize_mint(data, owned, input) ==
    IF data # <<>> THEN {Ret("AccountAlreadyInitialized", data)}
    ELSE IF ~owned THEN {Ret("IllegalOwner", data)}
    ELSE {Ret(Ok, EncMint(TokenMintDetails_new(input, Ongoing, EmptyMap)))}

\* TokenMintDetails::try_from_slice(..) at the head of mint_tokens and burn_tokens.
try_mint(data) == Try(data, DecMint(data))

\* mint_tokens(token_account, mint_address, amount) from the point where the
\* account has been loaded.
mint_tokens_loaded(data, loaded, mint_address, amount) ==
    IF ~loaded.ok THEN {Ret("InvalidAccountData", data)}
    ELSE LET token == loaded.val
         IN  IF mint_address \in DOMAIN token.balances
             THEN {IF s.panic THEN Ret(Panic, data)
                   ELSE StoreMint(data, Ok,
                            [token EXCEPT !.balances = Put(@, mint_address, s.val)])
                   : s \in AddU64(token.balances[mint_address], amount)}
             ELSE {StoreMint(data, Ok,
                       [token EXCEPT !.balances = Put(@, mint_address, amount)])}

mint_tokens(data, mint_address, amount) ==
    mint_tokens_loaded(data, try_mint(data), mint_address, amount)

\* The balance check of burn_tokens.
Insufficient(balance, amount) == balance < amount

\* burn_tokens(token_account, mint_address, amount) from the point where the
\* account has been loaded.
burn_tokens_loaded(data, loaded, mint_address, amount) ==
    IF ~loaded.ok THEN {Ret("InvalidAccountData", data)}
    ELSE LET token == loaded.val
         IN  IF mint_address \in DOMAIN token.balances
             THEN IF Insufficient(token.balances[mint_address], amount)
                  THEN {Ret("BorshIoError(Insufficient Balance!)", data)}
                  ELSE {StoreMint(data, Ok,
                            [token EXCEPT !.balances =
                                Put(@, mint_address, token.balances[mint_address] - amount)])}
             ELSE {Ret("BorshIoError(Account Not Exists!)", data)}

burn_tokens(data, mint_address, amount) ==
    burn_tokens_loaded(data, try_mint(data), mint_address, amount)

---------------------------------------------------------------------------
(* types.rs: the records of the Arch program and their borsh layout *)

\* EventStatus and BetType, as borsh numbers their variants.
Active == 0
Closed == 1
Resolved == 2
Cancelled == 3
SELL == 0
BUY == 1

EncBet(b) ==
    b.user \o b.event_id \o <<b.outcome_id>> \o LE(b.amount, U64Len)
    \o LE(b.timestamp, U64Len) \o <<b.bet_type>>

EncBets(bets) ==
    LE(Len(bets), U32Len) \o Concat([i \in 1..Len(bets) |-> EncBet(bets[i])])

EncOutcome(o) ==
    LET ks == SortedKeys(DOMAIN o.bets)
    IN  <<o.id>> \o LE(o.total_amount, U64Len) \o LE(Len(ks), U32Len)
        \o Concat([i \in 1..Len(ks) |-> ks[i] \o EncBets(o.bets[ks[i]])])

EncOption(w) == IF w = None THEN <<0>> ELSE <<1, w[1]>>

\* PredictionEvent::serialize
EncEvent(e) ==
    e.unique_id \o e.creator \o LE(e.expiry_timestamp, U32Len)
    \o LE(Len(e.outcomes), U32Len)
    \o Concat([i \in 1..Len(e.outcomes) |-> EncOutcome(e.outcomes[i])])
    \o LE(e.total_pool_amount, U64Len) \o <<e.status>> \o EncOption(e.winning_outcome)

\* borsh::to_vec(&Predictions)
EncPredictions(ps) ==
    LE(ps.total_predictions, U32Len) \o LE(Len(ps.predictions), U32Len)
    \o Concat([i \in 1..Len(ps.predictions) |-> EncEvent(ps.predictions[i])])

EventStatus == Enum(4)
BetType == Enum(2)
Bet ==
    Struct(<<"user", "event_id", "outcome_id", "amount", "timestamp", "bet_type">>,
           <<Pubkey, Pubkey, U8, U64, U64, BetType>>)
Outcome ==
    Struct(<<"id", "total_amount", "bets">>, <<U8, U64, HashMap(Pubkey, Vec(Bet))>>)
PredictionEvent ==
    Struct(<<"unique_id", "creator", "expiry_timestamp", "outcomes",
             "total_pool_amount", "status", "winning_outcome">>,
           <<Pubkey, Pubkey, U32, Vec(Outcome), U64, EventStatus, Option(U8)>>)
Predictions ==
    Struct(<<"total_predictions", "predictions">>, <<U32, Vec(PredictionEvent)>>)

\* Predictions::try_from_slice
DecPredictions(bs) == Rd(Predictions, bs, 1)
PredictionsReadable(bs) == Whole(bs, DecPredictions(bs))

---------------------------------------------------------------------------
(* lib.rs: the event ledger of the Arch program *)

\* The outcomes of u32 arithmetic: the result, or out of range a panic
\* (overflow checks on) or the wrapped result (overflow checks off).
AddU32(a, b) ==
    IF a + b <= U32Max THEN {[panic |-> FALSE, val |-> a + b]}
    ELSE {[panic |-> TRUE, val |-> 0], [panic |-> FALSE, val |-> (a + b) % U32Mod]}
SubU32(a, b) ==
    IF a >= b THEN {[panic |-> FALSE, val |-> a - b]}
    ELSE {[panic |-> TRUE, val |-> 0], [panic |-> FALSE, val |-> (a - b) % U32Mod]}

\* iter().position(..) / find(..): the index of the first item that passes, 0 if
\* none; passes[i] tells whether the i-th item passes.
FirstIndex(passes) ==
    IF \E i \in 1..Len(passes) : passes[i]
    THEN CHOOSE i \in 1..Len(passes) : passes[i] /\ \A j \in 1..(i - 1) : ~passes[j]
    ELSE 0

\* The index of the first of the items that equals x, 0 if none.
IndexOf(items, x) == FirstIndex([i \in 1..Len(items) |-> items[i] = x])

Position(events, unique_id) ==
    FirstIndex([i \in 1..Len(events) |-> events[i].unique_id = unique_id])

\* A write that replaces the account's bytes, dropping what lay beyond them.
Replaced(data, bytes) == bytes

\* data[..n].copy_from_slice(bytes): the first n bytes replaced, the rest kept.
Overwrite(data, bytes) == bytes \o SubSeq(data, Len(bytes) + 1, Len(data))

helper_deserialize_predictions(data) ==
    IF Len(data) > 0 THEN Try(data, DecPredictions(data))
    ELSE [ok |-> TRUE, val |-> [total_predictions |-> 0, predictions |-> <<>>]]

\* The account bytes after helper_store_predictions: the account is grown to the
\* encoding's length when smaller, never shrunk, and the encoding copied to its start.
helper_store_predictions(data, predictions_data) ==
    Overwrite(data, EncPredictions(predictions_data))

DeserializeFailed == "BorshIoError(Error: Failed to deserialize event data)"

\* Outcomes numbered from the identifier after the one asked for.
OutcomeFromOne(i) == [id |-> i + 1, total_amount |-> 0, bets |-> EmptyMap]

\* A new event whose pool is set from the expiry passed.
NewEventPoolFromExpiry(creator, unique_id, expiry_timestamp, num_outcomes) ==
    [unique_id |-> unique_id, creator |-> creator,
     expiry_timestamp |-> expiry_timestamp,
     outcomes |-> [i \in 1..num_outcomes |-> [id |-> i - 1, total_amount |-> 0,
                                              bets |-> EmptyMap]],
     total_pool_amount |-> expiry_timestamp, status |-> Active,
     winning_outcome |-> None]

\* One outcome of a new event.
NewOutcome(i) == [id |-> i, total_amount |-> 0, bets |-> EmptyMap]

\* The PredictionEvent process_create_event builds.
NewEvent(creator, unique_id, expiry_timestamp, num_outcomes) ==
    [unique_id |-> unique_id, creator |-> creator,
     expiry_timestamp |-> expiry_timestamp,
     outcomes |-> [i \in 1..num_outcomes |-> NewOutcome(i - 1)],
     total_pool_amount |-> 0, status |-> Active, winning_outcome |-> None]

\* process_create_event from the point where the aggregate has been loaded.
create_event_loaded(data, loaded, is_signer, creator, unique_id, expiry_timestamp, num_outcomes) ==
    IF ~is_signer THEN {Ret("MissingRequiredSignature", data)}
    ELSE LET event == NewEvent(creator, unique_id, expiry_timestamp, num_outcomes)
         IN  IF ~loaded.ok THEN {Ret(DeserializeFailed, data)}
             ELSE {IF n.panic THEN Ret(Panic, data)
                   ELSE Ret(Ok, helper_store_predictions(data,
                            [total_predictions |-> n.val,
                             predictions |-> Append(loaded.val.predictions, event)]))
                   : n \in AddU32(loaded.val.total_predictions, 1)}

process_create_event(data, is_signer, creator, unique_id, expiry_timestamp, num_outcomes) ==
    create_event_loaded(data, helper_deserialize_predictions(data), is_signer, creator,
                        unique_id, expiry_timestamp, num_outcomes)

\* A close that marks the event Cancelled.
CancelledStatus(status) == Cancelled

\* A close that marks the event Resolved.
ResolvedStatus(status) == Resolved

\* A close that reopens an event that was Closed.
ToggledStatus(status) == IF status = Closed THEN Active ELSE Closed

\* The status process_close_event gives an event, whatever its status was.
ClosedStatus(status) == Closed

\* process_close_event from the point where the aggregate has been loaded.
close_event_loaded(data, loaded, is_signer, unique_id) ==
    IF ~is_signer THEN {Ret("MissingRequiredSignature", data)}
    ELSE IF ~loaded.ok THEN {Ret(DeserializeFailed, data)}
    ELSE LET index == Position(loaded.val.predictions, unique_id)
         IN  IF index = 0 THEN {Ret(Panic, data)}
             ELSE {IF n.panic THEN Ret(Panic, data)
                   ELSE Ret(Ok, helper_store_predictions(data,
                            [total_predictions |-> n.val,
                             predictions |->
                                [loaded.val.predictions EXCEPT
                                    ![index].status = ClosedStatus(@)]]))
                   : n \in SubU32(loaded.val.total_predictions, 1)}

process_close_event(data, is_signer, unique_id) ==
    close_event_loaded(data, helper_deserialize_predictions(data), is_signer, unique_id)

\* One outcome of process_place_bet: the result, the account bytes, the staged
\* transaction, and the effects performed before it returned.
Eff(res, data, tx, fx) == [res |-> res, data |-> data, tx |-> tx, fx |-> fx]

\* The transaction process_place_bet stages: the state transition of the event
\* account and the first input of the fee transaction.
StagedTx(fee_tx) == <<[state_transition |-> "event_account", fee_input |-> fee_tx]>>

\* Predictions::try_from_slice(..).map_err(..) at the head of process_place_bet.
try_predictions(data) == Try(data, DecPredictions(data))

\* process_place_bet from the point where the aggregate has been loaded.
\* a: the call's inputs, with the host's answers:
\*   is_signer, bettor, unique_id, outcome_id, amount, bet_type, timestamp,
\*   utxo_owned (validate_utxo_ownership), utxo_zero (the bettor's utxo is the zero
\*   utxo), fee_tx (the fee transaction, 0 when tx_hex does not parse or has no input).
\* The Bet is laid out as types.rs declares it; its bet_type is an input.
place_bet_loaded(data, loaded, tx, a) ==
    IF ~a.is_signer THEN {Eff("MissingRequiredSignature", data, tx, {})}
    ELSE IF ~loaded.ok THEN {Eff("InvalidAccountData", data, tx, {})}
    ELSE
    LET events == loaded.val
        index == Position(events.predictions, a.unique_id)
    IN  IF index = 0 THEN {Eff(Panic, data, tx, {})}
        ELSE
        LET event == events.predictions[index]
            k == FirstIndex([i \in 1..Len(event.outcomes) |->
                                event.outcomes[i].id = a.outcome_id])
            bet == [user |-> a.bettor, event_id |-> event.unique_id,
                    outcome_id |-> a.outcome_id, amount |-> a.amount,
                    timestamp |-> a.timestamp, bet_type |-> a.bet_type]
        IN  IF event.status # Active
            THEN {Eff("BorshIoError(Event is closed.)", data, tx, {})}
            ELSE IF ~a.utxo_owned THEN {Eff("InvalidArgument", data, tx, {})}
            ELSE IF ~a.utxo_zero THEN {Eff("BorshIoError(No UTXO Passed)", data, tx, {})}
            ELSE IF a.fee_tx = 0 THEN {Eff(Panic, data, tx, {})}
            ELSE IF k = 0 THEN {Eff(Panic, data, tx, {"set_transaction_to_sign"})}
            ELSE
            LET old == event.outcomes[k].bets
                bets == IF a.bettor \in DOMAIN old
                        THEN Put(old, a.bettor, Append(old[a.bettor], bet))
                        ELSE Put(old, a.bettor, <<bet>>)
                written == EncEvent([event EXCEPT !.outcomes[k].bets = bets])
            IN  IF Len(written) > Len(data)
                THEN {Eff("InvalidAccountData", data, tx,
                          {"set_transaction_to_sign", "write"})}
                ELSE {Eff(Ok, Overwrite(data, written), StagedTx(a.fee_tx),
                          {"set_transaction_to_sign", "write"})}

process_place_bet(data, tx, a) == place_bet_loaded(data, try_predictions(data), tx, a)

---------------------------------------------------------------------------
(* lib3.rs: one event per account, settled in lamports *)

\* EventStatus of lib3.rs, as borsh numbers its variants.
Created3 == 0
Active3 == 1
Resolved3 == 2
Cancelled3 == 3

\* PredictionMarketError as u32, returned as ProgramError::Custom.
InsufficientFunds == "Custom(1)"
EventAlreadyExists == "Custom(2)"
EventNotFound == "Custom(3)"
InvalidOutcome == "Custom(4)"
EventNotResolved == "Custom(5)"
EventAlreadyResolved == "Custom(6)"

EncStrings(ss) == LE(Len(ss), U32Len) \o Concat([i \in 1..Len(ss) |-> WrString(ss[i])])
EncU64s(ns) == LE(Len(ns), U32Len) \o Concat([i \in 1..Len(ns) |-> LE(ns[i], U64Len)])
\* Option<String>: None is <<>>, Some(s) is <<s>>.
EncOptionString(w) == IF w = None THEN <<0>> ELSE <<1>> \o WrString(w[1])

\* PredictionEvent::try_to_vec of lib3.rs
EncEvent3(e) ==
    e.unique_id \o e.creator \o LE(e.expiry_timestamp, U64Len) \o EncStrings(e.outcomes)
    \o LE(e.total_pool_amount, U64Len) \o <<e.status>>
    \o EncOptionString(e.winning_outcome) \o EncU64s(e.outcome_balances)

EventStatus3 == Enum(4)
PredictionEvent3 ==
    Struct(<<"unique_id", "creator", "expiry_timestamp", "outcomes",
             "total_pool_amount", "status", "winning_outcome", "outcome_balances">>,
           <<Pubkey, Pubkey, U64, Vec(String), U64, EventStatus3, Option(String),
             Vec(U64)>>)

\* PredictionEvent::try_from_slice of lib3.rs
DecEvent3(bs) == Rd(PredictionEvent3, bs, 1)
Event3Readable(bs) == Whole(bs, DecEvent3(bs))

\* One outcome of a lib3 handler: the result, the event account's bytes, the
\* lamport ledger and the lamports paid out.
Ret3(res, data, ledger, paid) ==
    [res |-> res, data |-> data, ledger |-> ledger, paid |-> paid]

\* system_instruction::transfer / create_account: lamports moved from one key to
\* another; the system program refuses when the payer holds less.
CanPay(ledger, from, n) == ledger[from] >= n
Transfer(ledger, from, to, n) ==
    IF from = to THEN ledger
    ELSE [ledger EXCEPT ![from] = @ - n, ![to] = @ + n]

\* SystemError::AccountAlreadyInUse, as the system program reports it.
AccountAlreadyInUse == "Custom(0)"

\* How invoke(system_instruction::create_account(from, to, lamports, ..)) ends.
\* The payer has signed (the handler has checked it); the instruction names the
\* new account as signer too, so the runtime ends the transaction when it has
\* not signed; the system program then requires that the new account holds no
\* lamports and that the payer holds the lamports asked for.
invoke_create_account(ledger, from, to, to_is_signer, n) ==
    IF ~to_is_signer THEN PrivilegeEscalation
    ELSE IF ledger[to] > 0 THEN AccountAlreadyInUse
    ELSE IF ~CanPay(ledger, from, n) THEN InsufficientFunds
    ELSE Ok

\* How invoke(system_instruction::transfer(from, to, lamports)) ends: the
\* instruction names the payer as signer, so the runtime ends the transaction
\* when it has not signed; the system program then refuses a payer that carries
\* data, and after that a payer that holds less than the lamports.
invoke_transfer(ledger, from, from_is_signer, from_has_data, n) ==
    IF ~from_is_signer THEN PrivilegeEscalation
    ELSE IF from_has_data THEN "InvalidArgument"
    ELSE IF ~CanPay(ledger, from, n) THEN InsufficientFunds
    ELSE Ok

\* data[..n].copy_from_slice(bytes), n the encoding's length: the slice panics
\* when the account is shorter than the encoding.
Fits3(data, bytes) == Len(bytes) <= Len(data)

\* create_event.  rent: Rent::minimum_balance of the new account;
\* is_signer: creator.is_signer; account_is_signer: event_account.is_signer.
create_event(data, ledger, is_signer, account_is_signer, creator, account, unique_id, expiry_timestamp, outcomes, rent) ==
    IF ~is_signer THEN {Ret3("MissingRequiredSignature", data, ledger, 0)}
    ELSE IF Len(data) > 0 THEN {Ret3(EventAlreadyExists, data, ledger, 0)}
    ELSE LET event == [unique_id |-> unique_id, creator |-> creator,
                       expiry_timestamp |-> expiry_timestamp, outcomes |-> outcomes,
                       total_pool_amount |-> 0, status |-> Created3,
                       winning_outcome |-> None,
                       outcome_balances |-> [i \in 1..Len(outcomes) |-> 0]]
             created == invoke_create_account(ledger, creator, account,
                                              account_is_signer, rent)
         IN  IF created # Ok THEN {Ret3(created, data, ledger, 0)}
             ELSE {Ret3(Ok, EncEvent3(event), Transfer(ledger, creator, account, rent), 0)}

\* PredictionEvent::try_from_slice(..)? at the head of place_bet, resolve_event
\* and claim_winnings.
try_event3(data) == Try(data, DecEvent3(data))

\* The event after place_bet's update of the pool and of the chosen outcome's balance.
Credited(event, outcome_index, pool, balance) ==
    [event EXCEPT !.total_pool_amount = pool, !.outcome_balances[outcome_index] = balance]

\* place_bet from the point where the event has been loaded.  The bettor is a
\* wallet: an account of the system program that carries no data.
place_bet_loaded3(data, loaded, ledger, is_signer, bettor, account, amount, chosen_outcome) ==
    IF ~is_signer THEN {Ret3("MissingRequiredSignature", data, ledger, 0)}
    ELSE IF ~loaded.ok THEN {Ret3("BorshIoError", data, ledger, 0)}
    ELSE
    LET event == loaded.val
        outcome_index == IndexOf(event.outcomes, chosen_outcome)
    IN  IF event.status # Active3 THEN {Ret3(EventNotFound, data, ledger, 0)}
        ELSE IF outcome_index = 0 THEN {Ret3(InvalidOutcome, data, ledger, 0)}
        ELSE IF invoke_transfer(ledger, bettor, is_signer, FALSE, amount) # Ok
             THEN {Ret3(invoke_transfer(ledger, bettor, is_signer, FALSE, amount),
                        data, ledger, 0)}
        ELSE IF outcome_index > Len(event.outcome_balances)
             THEN {Ret3(Panic, data, ledger, 0)}
        ELSE {IF pool.panic \/ bal.panic THEN Ret3(Panic, data, ledger, 0)
              ELSE LET bytes == EncEvent3(Credited(event, outcome_index, pool.val, bal.val))
                   IN  IF ~Fits3(data, bytes) THEN Ret3(Panic, data, ledger, 0)
                       ELSE Ret3(Ok, Overwrite(data, bytes),
                                 Transfer(ledger, bettor, account, amount), 0)
              : pool \in AddU64(event.total_pool_amount, amount),
                bal \in AddU64(event.outcome_balances[outcome_index], amount)}

place_bet(data, ledger, is_signer, bettor, account, amount, chosen_outcome) ==
    place_bet_loaded3(data, try_event3(data), ledger, is_signer, bettor, account, amount,
                      chosen_outcome)

\* resolve_event from the point where the event has been loaded.
resolve_event_loaded(data, loaded, ledger, resolver, winning_outcome) ==
    IF ~loaded.ok THEN {Ret3("BorshIoError", data, ledger, 0)}
    ELSE
    LET event == loaded.val
        bytes == EncEvent3([event EXCEPT !.status = Resolved3,
                                         !.winning_outcome = Some(winning_outcome)])
    IN  IF resolver # event.creator THEN {Ret3("MissingRequiredSignature", data, ledger, 0)}
        ELSE IF event.status # Active3 THEN {Ret3(EventAlreadyResolved, data, ledger, 0)}
        ELSE IF \A i \in 1..Len(event.outcomes) : event.outcomes[i] # winning_outcome
             THEN {Ret3(InvalidOutcome, data, ledger, 0)}
        ELSE IF ~Fits3(data, bytes) THEN {Ret3(Panic, data, ledger, 0)}
        ELSE {Ret3(Ok, Overwrite(data, bytes), ledger, 0)}

resolve_event(data, ledger, resolver, winning_outcome) ==
    resolve_event_loaded(data, try_event3(data), ledger, resolver, winning_outcome)

\* The outcomes of the u64 product a * b.
MulU64(a, b) ==
    IF a * b <= U64Max THEN {[panic |-> FALSE, val |-> a * b]}
    ELSE {[panic |-> TRUE, val |-> 0], [panic |-> FALSE, val |-> (a * b) % U64Mod]}

\* One outcome of the payout computation: its result and the payout.
Amount(res, payout) == [res |-> res, payout |-> payout]

\* claim_winnings from the loaded event to the payout it hands to the transfer.
claim_payout(event) ==
    IF event.status # Resolved3 THEN {Amount(EventNotResolved, 0)}
    ELSE IF event.winning_outcome = None THEN {Amount(EventNotResolved, 0)}
    ELSE
    LET i == IndexOf(event.outcomes, event.winning_outcome[1])
    IN  IF i = 0 THEN {Amount(InvalidOutcome, 0)}
        ELSE IF i > Len(event.outcome_balances) THEN {Amount(Panic, 0)}
        ELSE
        LET winner_outcome_balance == event.outcome_balances[i]
            total_winning_pool == event.outcome_balances[i]
        IN  {IF prod.panic \/ total_winning_pool = 0 THEN Amount(Panic, 0)
             ELSE Amount(Ok, prod.val \div total_winning_pool)
             : prod \in MulU64(winner_outcome_balance, event.total_pool_amount)}

\* claim_winnings from the payout computed to its return: the transfer of
\* l.339-346 and what the handler returns.  c: one outcome of the computation.
\* account_is_signer: event_account.is_signer.  The payer of the transfer is the
\* event account, which carries the event's bytes.
claim_transfer(c, data, ledger, account_is_signer, winner, account) ==
    IF c.res # Ok THEN Ret3(c.res, data, ledger, 0)
    ELSE LET paid == invoke_transfer(ledger, account, account_is_signer,
                                     Len(data) > 0, c.payout)
         IN  IF paid # Ok THEN Ret3(paid, data, ledger, 0)
             ELSE Ret3(Ok, data, Transfer(ledger, account, winner, c.payout), c.payout)

\* claim_winnings from the point where the event has been loaded.
claim_winnings_loaded(data, loaded, ledger, account_is_signer, winner, account) ==
    IF ~loaded.ok THEN {Ret3("BorshIoError", data, ledger, 0)}
    ELSE {claim_transfer(c, data, ledger, account_is_signer, winner, account)
          : c \in claim_payout(loaded.val)}

claim_winnings(data, ledger, account_is_signer, winner, account) ==
    claim_winnings_loaded(data, try_event3(data), ledger, account_is_signer, winner,
                          account)

---------------------------------------------------------------------------
(* The inputs the actions draw from *)

Users == {Key(1), Key(2)}
UniqueIds == {Key(1), Key(2)}
\* The signers that create events in the Arch program.
Creators == {Key(1)}
\* Addresses of the lib3 event accounts.
Accounts3 == {Key(11), Key(12)}
\* Outcome names of lib3 events: "A", "B" and a name no event has, "C".
NameA == <<65>>
NameB == <<66>>
NameC == <<67>>
OutcomeNames == <<NameA, NameB>>

MintAmounts == {0, 1, MaxBalance, U64Max}
Supplies == {MaxBalance, U64Max}
Ticker == <<84>>
MintInputs ==
    {[owner |-> Key(1), supply |-> sup, ticker |-> Ticker, decimals |-> 0] :
        sup \in Supplies}

\* The balances the model follows: small ones and those next to the u64 maximum.
TrackedBalance(v) == v <= MaxBalance \/ v >= U64Max - 1

NumOutcomes == {2, 3}
OutcomeIds == {0, 7}
Expiries == {9}
Heights == {5}
BetAmounts == {1}
\* What the host answers a place_bet call: all checks pass, or exactly one fails.
HostPasses == [is_signer |-> TRUE, utxo_owned |-> TRUE, utxo_zero |-> TRUE, fee_tx |-> 1]
HostAnswers ==
    {HostPasses,
     [HostPasses EXCEPT !.is_signer = FALSE],
     [HostPasses EXCEPT !.utxo_owned = FALSE],
     [HostPasses EXCEPT !.utxo_zero = FALSE],
     [HostPasses EXCEPT !.fee_tx = 0]}
\* The calls of place_bet: every bettor, event, outcome and side when the host's
\* checks pass, and one bettor, outcome and side for each check that fails.
BetInputs ==
    {[is_signer |-> h.is_signer, bettor |-> b, unique_id |-> u, outcome_id |-> o,
      amount |-> n, bet_type |-> t, timestamp |-> ts, utxo_owned |-> h.utxo_owned,
      utxo_zero |-> h.utxo_zero, fee_tx |-> h.fee_tx] :
        h \in {HostPasses}, b \in Users, u \in UniqueIds, o \in OutcomeIds,
        n \in BetAmounts, t \in {SELL, BUY}, ts \in Heights}
    \cup
    {[is_signer |-> h.is_signer, bettor |-> Key(1), unique_id |-> u, outcome_id |-> 0,
      amount |-> n, bet_type |-> BUY, timestamp |-> ts, utxo_owned |-> h.utxo_owned,
      utxo_zero |-> h.utxo_zero, fee_tx |-> h.fee_tx] :
        h \in HostAnswers, u \in UniqueIds, n \in BetAmounts, ts \in Heights}

InitLamports == 2
Rents == {1}
Stakes == 0..MaxStake
BetAmounts3 == {1, U64Max}
ChosenOutcomes == {NameA, NameB, NameC}

---------------------------------------------------------------------------
(* The state after construction: every account empty *)

RECURSIVE SumOver(_, _)
SumOver(S, f) ==
    IF S = {} THEN 0 ELSE LET x == CHOOSE y \in S : TRUE IN f[x] + SumOver(S \ {x}, f)

\* What the bettors have staked on outcome i, st[u][i] being the stake of u.
StakeOn(st, i) == SumOver(Users, [u \in Users |-> st[u][i]])

\* The lib3.rs event whose outcome balances are the stakes st and whose pool is
\* their sum; status is the pair of its status and its winning outcome.
StakedEvent(creator, st, status) ==
    [unique_id |-> Key(1), creator |-> creator, expiry_timestamp |-> 9,
     outcomes |-> OutcomeNames,
     total_pool_amount |-> StakeOn(st, 1) + StakeOn(st, 2),
     status |-> status[1], winning_outcome |-> status[2],
     outcome_balances |-> [i \in 1..Len(OutcomeNames) |-> StakeOn(st, i)]]

\* The record of the claim_winnings calls on one event, before the first call.
\* event: the event the account carries; stake: what each claimant staked on
\* each outcome; paid: the lamports the calls have moved to each claimant, in
\* all; of the last call, who: the claimant, res: the result, reached: it
\* handed a transfer to the system program, amount: the lamports of that
\* transfer, credited: the lamports it moved to the claimant; calls: the calls
\* so far.
Calc(event, st) ==
    [event |-> event, stake |-> st, paid |-> [u \in Users |-> 0],
     who |-> <<>>, res |-> Ok, reached |-> FALSE, amount |-> 0, credited |-> 0,
     calls |-> 0]

NoStakes == [u \in Users |-> [i \in 1..Len(OutcomeNames) |-> 0]]
NoCalc == Calc(StakedEvent(Key(1), NoStakes, <<Created3, None>>), NoStakes)

InitAccounts ==
    /\ mint_data = <<>>
    /\ event_data = <<>>
    /\ tx_to_sign = <<>>
    /\ event3 = [a \in Accounts3 |-> <<>>]
    /\ lamports = [k \in Users \cup Accounts3 |-> IF k \in Users THEN InitLamports ELSE 0]
    /\ calc = NoCalc
    /\ last = NoCall

Init == InitAccounts

---------------------------------------------------------------------------
(* mint.rs actions *)

InitializeMint ==
    \E owned \in BOOLEAN, input \in MintInputs :
        \E r \in initialize_mint(mint_data, owned, input) :
            /\ mint_data' = r.data
            /\ last' = Record("initialize_mint", r.res, input.owner, <<>>, input.supply,
                              0, {})
            /\ UNCHANGED <<event_data, tx_to_sign, event3, lamports, calc>>

\* The calls are followed while the balance they leave is one the model follows.
MintFollowed(token, target, amount) ==
    target \in DOMAIN token.balances =>
        TrackedBalance((token.balances[target] + amount) % U64Mod)

MintTokensOn(loaded) ==
    \E target \in Users, amount \in MintAmounts :
        /\ loaded.ok => MintFollowed(loaded.val, target, amount)
        /\ \E r \in mint_tokens_loaded(mint_data, loaded, target, amount) :
            /\ mint_data' = r.data
            /\ last' = Record("mint_tokens", r.res, target, <<>>, amount, 0, {})
            /\ UNCHANGED <<event_data, tx_to_sign, event3, lamports, calc>>

MintTokens == MintTokensOn(try_mint(mint_data))

BurnFollowed(token, target, amount) ==
    (target \in DOMAIN token.balances /\ token.balances[target] >= amount) =>
        TrackedBalance(token.balances[target] - amount)

BurnTokensOn(loaded) ==
    \E target \in Users, amount \in MintAmounts :
        /\ loaded.ok => BurnFollowed(loaded.val, target, amount)
        /\ \E r \in burn_tokens_loaded(mint_data, loaded, target, amount) :
            /\ mint_data' = r.data
            /\ last' = Record("burn_tokens", r.res, target, <<>>, amount, 0, {})
            /\ UNCHANGED <<event_data, tx_to_sign, event3, lamports, calc>>

BurnTokens == BurnTokensOn(try_mint(mint_data))

NextMint == InitializeMint \/ MintTokens \/ BurnTokens
SpecMint == Init /\ [][NextMint]_vars

---------------------------------------------------------------------------
(* lib.rs actions *)

CreateEventOn(loaded) ==
    /\ loaded.ok => Len(loaded.val.predictions) < MaxEvents
    /\ \E is_signer \in BOOLEAN, creator \in Creators, unique_id \in UniqueIds,
          expiry \in Expiries, n \in NumOutcomes :
        \E r \in create_event_loaded(event_data, loaded, is_signer, creator,
                                     unique_id, expiry, n) :
            /\ event_data' = r.data
            /\ last' = Record("create_event", r.res, creator, unique_id, 0, 0, {})
            /\ UNCHANGED <<mint_data, tx_to_sign, event3, lamports, calc>>

CreateEvent == CreateEventOn(helper_deserialize_predictions(event_data))

\* The count the model follows: at most MaxEvents, or one of the MaxUnderflow
\* values below zero, wrapped.
TrackedTotal(n) == n <= MaxEvents \/ n >= U32Mod - MaxUnderflow

CloseEventOn(loaded) ==
    /\ loaded.ok => TrackedTotal((loaded.val.total_predictions - 1) % U32Mod)
    /\ \E is_signer \in BOOLEAN, caller \in Users, unique_id \in UniqueIds :
        \E r \in close_event_loaded(event_data, loaded, is_signer, unique_id) :
            /\ event_data' = r.data
            /\ last' = Record("close_event", r.res, caller, unique_id, 0, 0, {})
            /\ UNCHANGED <<mint_data, tx_to_sign, event3, lamports, calc>>

CloseEvent == CloseEventOn(helper_deserialize_predictions(event_data))

PlaceBetOn(loaded) ==
    \E a \in BetInputs :
        \E r \in place_bet_loaded(event_data, loaded, tx_to_sign, a) :
            /\ event_data' = r.data
            /\ tx_to_sign' = r.tx
            /\ last' = Record("place_bet", r.res, a.bettor, a.unique_id, a.amount, 0, r.fx)
            /\ UNCHANGED <<mint_data, event3, lamports, calc>>

PlaceBet == PlaceBetOn(try_predictions(event_data))

NextEvents == CreateEvent \/ CloseEvent \/ PlaceBet
SpecEvents == Init /\ [][NextEvents]_vars

---------------------------------------------------------------------------
(* lib3.rs actions *)

CreateEvent3(account) ==
    \E is_signer \in BOOLEAN, account_is_signer \in BOOLEAN, creator \in Users,
       unique_id \in UniqueIds, expiry \in Expiries, rent \in Rents :
        \E r \in create_event(event3[account], lamports, is_signer, account_is_signer,
                              creator, account, unique_id, expiry, OutcomeNames, rent) :
            /\ event3' = [event3 EXCEPT ![account] = r.data]
            /\ lamports' = r.ledger
            /\ last' = Record("create_event3", r.res, creator, account, 0, 0, {})
            /\ UNCHANGED <<mint_data, event_data, tx_to_sign, calc>>

PlaceBet3On(account, loaded) ==
    \E is_signer \in BOOLEAN, bettor \in Users, amount \in BetAmounts3,
       chosen_outcome \in ChosenOutcomes :
        \E r \in place_bet_loaded3(event3[account], loaded, lamports, is_signer, bettor,
                                   account, amount, chosen_outcome) :
            /\ event3' = [event3 EXCEPT ![account] = r.data]
            /\ lamports' = r.ledger
            /\ last' = Record("place_bet3", r.res, bettor, account, amount, 0, {})
            /\ UNCHANGED <<mint_data, event_data, tx_to_sign, calc>>

PlaceBet3(account) == PlaceBet3On(account, try_event3(event3[account]))

ResolveEvent3On(account, loaded) ==
    \E resolver \in Users, winning_outcome \in ChosenOutcomes :
        \E r \in resolve_event_loaded(event3[account], loaded, lamports, resolver,
                                      winning_outcome) :
            /\ event3' = [event3 EXCEPT ![account] = r.data]
            /\ lamports' = r.ledger
            /\ last' = Record("resolve_event", r.res, resolver, account, 0, 0, {})
            /\ UNCHANGED <<mint_data, event_data, tx_to_sign, calc>>

ResolveEvent3(account) == ResolveEvent3On(account, try_event3(event3[account]))

ClaimWinnings3On(account, loaded) ==
    \E winner \in Users, account_is_signer \in BOOLEAN :
        \E r \in claim_winnings_loaded(event3[account], loaded, lamports,
                                       account_is_signer, winner, account) :
            /\ event3' = [event3 EXCEPT ![account] = r.data]
            /\ lamports' = r.ledger
            /\ last' = Record("claim_winnings", r.res, winner, account, 0, r.paid, {})
            /\ UNCHANGED <<mint_data, event_data, tx_to_sign, calc>>

ClaimWinnings3(account) == ClaimWinnings3On(account, try_event3(event3[account]))

Market(account) ==
    \/ CreateEvent3(account)
    \/ PlaceBet3(account)
    \/ ResolveEvent3(account)
    \/ ClaimWinnings3(account)

NextMarket == \E account \in Accounts3 : Market(account)
\* lib3.rs from construction: every event account starts empty.
SpecMarket == Init /\ [][NextMarket]_vars

(* lib3.rs claim_winnings as a function of the event account it is called on.   *)
(* The account carries the encoding of an event of any status whose outcome     *)
(* balances are the stakes of the bettors and whose pool is their sum, and      *)
(* holds its rent and its pool.  The handler writes nothing to the account, so  *)
(* every call of a sequence works on the same event.                            *)
MaxClaims == 2
ClaimAccount == Key(11)
ClaimStatuses ==
    {<<Created3, None>>, <<Active3, None>>, <<Cancelled3, None>>,
     <<Resolved3, None>>, <<Resolved3, Some(NameA)>>, <<Resolved3, Some(NameB)>>,
     <<Resolved3, Some(NameC)>>}

InitPayout ==
    \E creator \in Creators, status \in ClaimStatuses, rent \in Rents,
       st \in [Users -> [1..Len(OutcomeNames) -> Stakes]] :
        LET event == StakedEvent(creator, st, status)
        IN  /\ mint_data = <<>>
            /\ event_data = <<>>
            /\ tx_to_sign = <<>>
            /\ event3 = [a \in Accounts3 |->
                            IF a = ClaimAccount THEN EncEvent3(event) ELSE <<>>]
            /\ lamports = [k \in Users \cup Accounts3 |->
                            IF k \in Users THEN InitLamports
                            ELSE IF k = ClaimAccount
                                 THEN rent + event.total_pool_amount ELSE 0]
            /\ calc = Calc(event, st)
            /\ last = NoCall

\* claim_winnings on the account: the event is loaded, the payout computed
\* and handed to the transfer, and the result of the transfer returned.
ClaimPayoutOn(account, loaded) ==
    /\ calc.calls < MaxClaims
    /\ loaded.ok
    /\ \E winner \in Users, account_is_signer \in BOOLEAN :
        \E c \in claim_payout(loaded.val) :
            LET r == claim_transfer(c, event3[account], lamports, account_is_signer,
                                    winner, account)
            IN  /\ event3' = [event3 EXCEPT ![account] = r.data]
                /\ lamports' = r.ledger
                /\ calc' = [calc EXCEPT !.calls = @ + 1, !.who = winner,
                                        !.res = r.res,
                                        !.reached = (c.res = Ok),
                                        !.amount = c.payout,
                                        !.credited = r.paid,
                                        !.paid[winner] = @ + r.paid]
                /\ last' = Record("claim_winnings", r.res, winner, account, 0,
                                  r.paid, {})
                /\ UNCHANGED <<mint_data, event_data, tx_to_sign>>

ClaimPayout == ClaimPayoutOn(ClaimAccount, try_event3(event3[ClaimAccount]))

NextPayout == ClaimPayout
SpecPayout == InitPayout /\ [][NextPayout]_vars

---------------------------------------------------------------------------
(* The properties *)

RECURSIVE SumSeq(_)
SumSeq(ns) == IF ns = <<>> THEN 0 ELSE Head(ns) + SumSeq(Tail(ns))

\* The events of the lib.rs aggregate, when the slot holds one.
StoredEvents(data) ==
    LET loaded == helper_deserialize_predictions(data)
    IN  IF loaded.ok THEN loaded.val.predictions ELSE <<>>

\* The index in an event's outcome list of its winning outcome, 0 if there is none.
WinningIndex(event) ==
    IF event.winning_outcome = None THEN 0
    ELSE IndexOf(event.outcomes, event.winning_outcome[1])

\* The pool of an event of the lib.rs aggregate is the sum of its outcomes' totals.
PoolIsSum(event) ==
    event.total_pool_amount =
        SumSeq([j \in 1..Len(event.outcomes) |-> event.outcomes[j].total_amount])

\* The slot holds the one event a successful place_bet has written over it.
HoldsWrittenEvent(data) ==
    ~helper_deserialize_predictions(data).ok /\ Rd(PredictionEvent, data, 1).ok

Due(event, st, winner) ==
    (st[winner][WinningIndex(event)] * event.total_pool_amount)
        \div event.outcome_balances[WinningIndex(event)]

ErrorKind(res) ==
    CASE res = "BorshIoError(Insufficient Balance!)" -> "InsufficientFunds"
      [] res = InsufficientFunds -> "InsufficientFunds"
      [] res = "BorshIoError(Event is closed.)" -> "EventNotActive"
      [] res = EventAlreadyExists -> "DuplicateEvent"
      [] res = EventNotFound -> "EventNotFound"
      [] res = EventAlreadyResolved -> "EventAlreadyResolved"
      [] res = "MissingRequiredSignature" -> "Unauthorized"
      [] OTHER -> res

\* C4: create_event with a unique_id that an event of the aggregate already has
\* fails with DuplicateEvent and adds no event, so no two events share a unique_id.
UniqueIdsDistinct ==
    /\ \A i, j \in 1..Len(StoredEvents(event_data)) :
        i # j => StoredEvents(event_data)[i].unique_id
                    # StoredEvents(event_data)[j].unique_id
    /\ \A creator \in Users, unique_id \in UniqueIds, expiry \in Expiries,
          n \in NumOutcomes :
        Position(StoredEvents(event_data), unique_id) # 0 =>
            \A r \in process_create_event(event_data, TRUE, creator, unique_id,
                                          expiry, n) :
                ErrorKind(r.res) = "DuplicateEvent" /\ r.data = event_data

\* The statuses of the events of one aggregate kept from one state to the next.
StatusKept(events, events_after) ==
    \A i \in 1..Len(events) :
        i <= Len(events_after) =>
            /\ events[i].status # Active => events_after[i].status = events[i].status
            /\ events_after[i].status # events[i].status =>
                    events_after[i].status \in {Closed, Resolved, Cancelled}

\* The status of one lib3.rs event kept once it is Resolved or Cancelled.
StatusKept3(old, new) ==
    (old.ok /\ new.ok /\ old.val.status \in {Resolved3, Cancelled3}) =>
        new.val.status = old.val.status

BetOnClosedRejected ==
    \A a \in BetInputs :
        LET events == StoredEvents(event_data)
            index == Position(events, a.unique_id)
        IN  (a.is_signer /\ index # 0 /\ events[index].status # Active) =>
                \A r \in process_place_bet(event_data, tx_to_sign, a) :
                    /\ ErrorKind(r.res) = "EventNotActive"
                    /\ r.data = event_data
                    /\ r.tx = tx_to_sign

\* lib3.rs: a signed place_bet on an event that is not Active fails with
\* EventNotActive and changes nothing.
BetOnInactiveRejected3 ==
    \A account \in Accounts3, bettor \in Users, amount \in BetAmounts3,
       chosen_outcome \in ChosenOutcomes :
        LET loaded == try_event3(event3[account])
        IN  (loaded.ok /\ loaded.val.status # Active3) =>
                \A r \in place_bet(event3[account], lamports, TRUE, bettor, account,
                                   amount, chosen_outcome) :
                    /\ ErrorKind(r.res) = "EventNotActive"
                    /\ r.data = event3[account]
                    /\ r.ledger = lamports

\* C6: place_bet on an event whose status is not Active always fails with
\* EventNotActive and leaves the event's bets, outcome totals and pool unchanged.
BetOnInactiveRejected == BetOnClosedRejected /\ BetOnInactiveRejected3

\* C7: resolve_event by the creator with a valid winning outcome succeeds on an
\* event that has not been resolved, making it Resolved with that outcome; on a
\* Resolved event it fails with EventAlreadyResolved and changes nothing.
ResolveOnceThenRejected ==
    \A account \in Accounts3 :
        LET loaded == try_event3(event3[account])
        IN  loaded.ok =>
            \A i \in 1..Len(loaded.val.outcomes) :
                \A r \in resolve_event(event3[account], lamports, loaded.val.creator,
                                       loaded.val.outcomes[i]) :
                    CASE loaded.val.status = Resolved3 ->
                            /\ ErrorKind(r.res) = "EventAlreadyResolved"
                            /\ r.data = event3[account]
                      [] loaded.val.status \in {Created3, Active3} ->
                            /\ r.res = Ok
                            /\ try_event3(r.data).ok
                            /\ try_event3(r.data).val.status = Resolved3
                            /\ try_event3(r.data).val.winning_outcome
                                = Some(loaded.val.outcomes[i])
                      [] OTHER -> TRUE

\* C8: close_event succeeds only for the creator of the event it closes; for any
\* other caller it fails with Unauthorized and the event keeps its status.
CloseByCreatorOnly ==
    [][(last'.op = "close_event" /\ last'.res = Ok) =>
          LET events == StoredEvents(event_data)
              index == Position(events, last'.id)
          IN  index # 0 /\ last'.who = events[index].creator]_vars

\* The balance of an identity, zero when it has no entry.
BalanceOf(token, k) == IF k \in DOMAIN token.balances THEN token.balances[k] ELSE 0

\* C9: burn_tokens fails with InsufficientFunds whenever amount exceeds
\* the target's balance, leaving all balances unchanged, and a burn that succeeds
\* takes exactly amount from a balance that covers it, so no balance goes negative.
BurnInsufficientFunds ==
    \A target \in Users, amount \in MintAmounts :
        LET loaded == try_mint(mint_data)
        IN  loaded.ok =>
            \A r \in burn_tokens(mint_data, target, amount) :
                IF amount > BalanceOf(loaded.val, target)
                THEN ErrorKind(r.res) = "InsufficientFunds" /\ r.data = mint_data
                ELSE r.res = Ok =>
                        /\ try_mint(r.data).ok
                        /\ try_mint(r.data).val.balances =
                            [loaded.val.balances EXCEPT ![target] = @ - amount]

\* C10: mint_tokens fails with SupplyExceeded when the circulating supply plus
\* amount would exceed the supply, leaving all balances unchanged, so the sum of
\* all balances never exceeds the supply.
SupplyBounded ==
    LET loaded == try_mint(mint_data)
    IN  loaded.ok =>
        LET token == loaded.val
            circulating == SumOver(DOMAIN token.balances, token.balances)
        IN  /\ circulating <= token.supply
            /\ \A target \in Users, amount \in MintAmounts :
                circulating + amount > token.supply =>
                    \A r \in mint_tokens(mint_data, target, amount) :
                        ErrorKind(r.res) = "SupplyExceeded" /\ r.data = mint_data


\* C11: a successful mint_tokens(target, amount) increases the target's balance by
\* exactly amount and circulating_supply by exactly amount, and leaves every other
\* balance and the supply, owner, ticker and decimals unchanged.
MintCreditsTargetAndSupply ==
    \A target \in Users, amount \in MintAmounts :
        LET loaded == try_mint(mint_data)
        IN  loaded.ok =>
            \A r \in mint_tokens(mint_data, target, amount) :
                r.res = Ok =>
                    LET token == loaded.val
                        after == try_mint(r.data)
                    IN  /\ after.ok
                        /\ BalanceOf(after.val, target) = BalanceOf(token, target) + amount
                        /\ after.val.circulating_supply = token.circulating_supply + amount
                        /\ \A k \in DOMAIN token.balances \ {target} :
                            BalanceOf(after.val, k) = token.balances[k]
                        /\ DOMAIN after.val.balances = DOMAIN token.balances \cup {target}
                        /\ after.val.supply = token.supply
                        /\ after.val.owner = token.owner
                        /\ after.val.ticker = token.ticker
                        /\ after.val.decimals = token.decimals


\* C12: in every reachable state the event slot is zero-length or decodes as a
\* Predictions aggregate whose encoding is the stored bytes, so every successful
\* create_event, close_event and place_bet leaves the slot holding the encoding of
\* the whole aggregate.
SlotHoldsAggregate ==
    event_data # <<>> =>
        LET loaded == try_predictions(event_data)
        IN  loaded.ok /\ EncPredictions(loaded.val) = event_data


\* The bytes at the start of the slot are the whole encoding of a value of shape T.
HoldsEncoded(T, data) == Rd(T, data, 1).ok

\* C13: growth-only storage: no step makes the event slot shorter, and after every
\* successful write the slot is at least as long as the encoding just written: the
\* whole aggregate after create_event and close_event, the event after place_bet.
GrowthOnlyStorage ==
    [][/\ Len(event_data') >= Len(event_data)
       /\ (event_data' # event_data /\ last'.res = Ok) =>
            /\ last'.op \in {"create_event", "close_event"} =>
                    /\ HoldsEncoded(Predictions, event_data')
                    /\ Len(event_data')
                        >= Len(EncPredictions(DecPredictions(event_data').val))
            /\ last'.op = "place_bet" =>
                    /\ HoldsEncoded(PredictionEvent, event_data')
                    /\ Len(event_data')
                        >= Len(EncEvent(Rd(PredictionEvent, event_data', 1).val))]_vars

\* place_bet has just written an event shorter than the slot, and the slot has
\* kept its length.
SmallerWriteWitness ==
    /\ last.op = "place_bet"
    /\ last.res = Ok
    /\ HoldsEncoded(PredictionEvent, event_data)
    /\ Len(EncEvent(Rd(PredictionEvent, event_data, 1).val)) < Len(event_data)


CloseUnknownNotFound ==
    LET loaded == helper_deserialize_predictions(event_data)
    IN  loaded.ok =>
        \A unique_id \in UniqueIds :
            Position(loaded.val.predictions, unique_id) = 0 =>
                \A r \in close_event_loaded(event_data, loaded, TRUE, unique_id) :
                    ErrorKind(r.res) = "EventNotFound" /\ r.data = event_data


\* C16: a successful create_event appends exactly one event at the end of the
\* aggregate's events: Active, created by the signer, with an empty pool, no
\* winning outcome and outcome_count outcomes of ids 0..outcome_count-1, each with
\* total 0 and no bets; every event the aggregate had is unchanged.
CreateAppendsActiveEvent ==
    LET loaded == helper_deserialize_predictions(event_data)
    IN  \A is_signer \in BOOLEAN, creator \in Creators, unique_id \in UniqueIds,
           expiry \in Expiries, n \in NumOutcomes :
            \A r \in create_event_loaded(event_data, loaded, is_signer, creator,
                                         unique_id, expiry, n) :
                r.res = Ok =>
                    LET before == loaded.val.predictions
                        after == StoredEvents(r.data)
                        event == after[Len(after)]
                    IN  /\ loaded.ok
                        /\ is_signer
                        /\ Len(after) = Len(before) + 1
                        /\ \A i \in 1..Len(before) : after[i] = before[i]
                        /\ event.unique_id = unique_id
                        /\ event.creator = creator
                        /\ event.status = Active
                        /\ event.total_pool_amount = 0
                        /\ event.winning_outcome = None
                        /\ Len(event.outcomes) = n
                        /\ \A j \in 1..n :
                            /\ event.outcomes[j].id = j - 1
                            /\ event.outcomes[j].total_amount = 0
                            /\ DOMAIN event.outcomes[j].bets = {}

\* create_event has just added an event to an aggregate that had one already.
SecondEventWitness ==
    /\ last.op = "create_event"
    /\ last.res = Ok
    /\ Len(StoredEvents(event_data)) = 2
    /\ StoredEvents(event_data)[2].unique_id = last.id
    /\ StoredEvents(event_data)[2].creator = last.who


\* The token balance an identity holds in the mint account, zero when the account
\* holds no mint or the identity has no entry.
TokenBalance(data, k) ==
    IF try_mint(data).ok THEN BalanceOf(try_mint(data).val, k) ELSE 0

\* The event of the aggregate that a call named by its unique_id.
EventNamed(data, unique_id) ==
    StoredEvents(data)[Position(StoredEvents(data), unique_id)]

\* The event a successful place_bet has left at the start of the slot.
EventWritten(data) == Rd(PredictionEvent, data, 1).val

\* The index of the outcome whose bets a place_bet has changed.
PlacedAt(before, after) ==
    CHOOSE k \in 1..Len(after.outcomes) :
        after.outcomes[k].bets # before.outcomes[k].bets

\* The bet a place_bet of the bettor has appended to outcome k.
PlacedBet(after, k, bettor) ==
    after.outcomes[k].bets[bettor][Len(after.outcomes[k].bets[bettor])]

\* C17: a successful BUY place_bet of an amount by a bettor on an outcome takes
\* the amount from the bettor's token balance and adds it to the outcome's total
\* and to the event's pool; with a balance below the amount the call fails with
\* InsufficientFunds, so a BUY that succeeded had a balance that covers it.
BuyBurnsAndCredits ==
    [][(event_data' # event_data /\ last'.op = "place_bet" /\ last'.res = Ok) =>
          LET before == EventNamed(event_data, last'.id)
              after == EventWritten(event_data')
              k == PlacedAt(before, after)
              bet == PlacedBet(after, k, last'.who)
          IN  bet.bet_type = BUY =>
                /\ TokenBalance(mint_data, last'.who) >= bet.amount
                /\ TokenBalance(mint_data', last'.who)
                    = TokenBalance(mint_data, last'.who) - bet.amount
                /\ after.outcomes[k].total_amount
                    = before.outcomes[k].total_amount + bet.amount
                /\ after.total_pool_amount = before.total_pool_amount + bet.amount]_vars


\* C18: a SELL place_bet of an amount above the outcome's total is rejected with
\* InvalidOutcome, so a SELL that succeeded asked for no more than the total; it
\* adds the amount to the bettor's token balance and takes it from the outcome's
\* total and from the event's pool, neither of which underflows.
SellMintsAndDebits ==
    [][(event_data' # event_data /\ last'.op = "place_bet" /\ last'.res = Ok) =>
          LET before == EventNamed(event_data, last'.id)
              after == EventWritten(event_data')
              k == PlacedAt(before, after)
              bet == PlacedBet(after, k, last'.who)
          IN  bet.bet_type = SELL =>
                /\ bet.amount <= before.outcomes[k].total_amount
                /\ bet.amount <= before.total_pool_amount
                /\ TokenBalance(mint_data', last'.who)
                    = TokenBalance(mint_data, last'.who) + bet.amount
                /\ after.outcomes[k].total_amount
                    = before.outcomes[k].total_amount - bet.amount
                /\ after.total_pool_amount = before.total_pool_amount - bet.amount]_vars


\* C19: initialize_mint succeeds at most once on a mint account: on an account
\* whose data is not empty it fails with AccountAlreadyInitialized and leaves the
\* owner, the supply and every balance as they were, whoever owns the account and
\* whatever the input.
InitializeMintOnce ==
    mint_data # <<>> =>
        \A owned \in BOOLEAN, input \in MintInputs :
            \A r \in initialize_mint(mint_data, owned, input) :
                /\ r.res = "AccountAlreadyInitialized"
                /\ r.data = mint_data

\* initialize_mint has just been refused on a mint in which a balance is held.
InitializeRefusedWitness ==
    /\ last.op = "initialize_mint"
    /\ last.res = "AccountAlreadyInitialized"
    /\ \E k \in Users : TokenBalance(mint_data, k) > 0


\* C20: every handler of the event ledger that loads the aggregate from a
\* zero-length slot takes it for the empty aggregate and reports no decode error;
\* create_event on the zero-length slot succeeds and leaves an aggregate of
\* exactly one event.
EmptySlotIsEmptyAggregate ==
    event_data = <<>> =>
        /\ \A creator \in Creators, unique_id \in UniqueIds, expiry \in Expiries,
              n \in NumOutcomes :
            \A r \in process_create_event(event_data, TRUE, creator, unique_id,
                                          expiry, n) :
                /\ r.res = Ok
                /\ try_predictions(r.data).ok
                /\ try_predictions(r.data).val.total_predictions = 1
                /\ Len(try_predictions(r.data).val.predictions) = 1
        /\ \A unique_id \in UniqueIds :
            \A r \in process_close_event(event_data, TRUE, unique_id) :
                r.res # DeserializeFailed
        /\ \A a \in BetInputs :
            a.is_signer =>
                \A r \in process_place_bet(event_data, tx_to_sign, a) :
                    r.res \notin {DeserializeFailed, "InvalidAccountData"}


\* C21: in every handler all validation comes before the first write and the
\* first effect, so a call that returns an error has performed no effect and has
\* left the event slot, the mint slot and the staged transaction as they were.
ValidationBeforeEffects ==
    [][last'.res \notin {Ok} \cup Aborts =>
          /\ last'.fx = {}
          /\ event_data' = event_data
          /\ mint_data' = mint_data
          /\ tx_to_sign' = tx_to_sign]_vars

\* The events of one aggregate are all present in a later one, at the same
\* positions with the same unique_id and creator.
EventsKept(events, events_after) ==
    /\ Len(events_after) >= Len(events)
    /\ \A i \in 1..Len(events) :
        /\ events_after[i].unique_id = events[i].unique_id
        /\ events_after[i].creator = events[i].creator

\* C22: events are never removed: after every successful create_event, close_event
\* and place_bet, every event the aggregate held is still in the stored aggregate
\* at the same position with the same unique_id and creator.
EventsNeverRemoved ==
    [][event_data' # event_data =>
          EventsKept(StoredEvents(event_data), StoredEvents(event_data'))]_vars

\* C23: every call of a handler completes or returns an error; none aborts, not
\* place_bet with an unknown unique_id or an outcome the event does not have, nor
\* claim_winnings on a Resolved event whose winning outcome holds nothing.
NeverAborts == last.res \notin Aborts

\* C24: after any sequence of create_event and close_event calls, total_predictions
\* is the number of events of the aggregate; closing an event, one already closed
\* included, does not move the count away from the length nor below zero.
TotalEqualsLength ==
    LET loaded == helper_deserialize_predictions(event_data)
    IN  loaded.ok => loaded.val.total_predictions = Len(loaded.val.predictions)

\* The bets of a bettor on an outcome, none when the bettor has no entry.
BetsOf(outcome, bettor) ==
    IF bettor \in DOMAIN outcome.bets THEN outcome.bets[bettor] ELSE <<>>

\* The event after a place_bet is the event before it with exactly one Bet of the
\* bettor, for the event and the amount given, appended to the bettor's bets on
\* one outcome, every other bet history of the event being as it was.
OneBetAppended(before, after, bettor, amount) ==
    /\ Len(after.outcomes) = Len(before.outcomes)
    /\ \E k \in 1..Len(before.outcomes) :
        /\ \E bet \in {PlacedBet(after, k, bettor)} :
            /\ bet.user = bettor
            /\ bet.event_id = before.unique_id
            /\ bet.outcome_id = before.outcomes[k].id
            /\ bet.amount = amount
            /\ BetsOf(after.outcomes[k], bettor)
                = Append(BetsOf(before.outcomes[k], bettor), bet)
        /\ \A u \in Users \ {bettor} :
            BetsOf(after.outcomes[k], u) = BetsOf(before.outcomes[k], u)
        /\ \A j \in 1..Len(before.outcomes) :
            j # k => after.outcomes[j].bets = before.outcomes[j].bets

\* C26: a successful place_bet of a bettor on an outcome appends exactly one Bet
\* (the bettor, the event's id, the outcome, the amount) at the end of the
\* bettor's bets on that outcome, keeps the bettor's earlier bets in their order,
\* and leaves the bets of every other bettor, outcome and event as they were.
BetAppendedOthersKept ==
    [][(event_data' # event_data /\ last'.op = "place_bet" /\ last'.res = Ok) =>
          LET events == StoredEvents(event_data)
              events_after == StoredEvents(event_data')
              index == Position(events, last'.id)
          IN  /\ Len(events_after) = Len(events)
              /\ \A i \in 1..Len(events) :
                    i # index => events_after[i] = events[i]
              /\ OneBetAppended(events[index], events_after[index], last'.who,
                                last'.amt)]_vars

=============================================================================
